---- MODULE Spec2Model ----
(***************************************************************************)
(* Walking-itinerary planner of Gorky_guide: the budget-constrained        *)
(* selector (route_builder_limit.py), the tour construction and refinement *)
(* engine and the distance-oracle adapter (route_bulder_foot.py), and the  *)
(* stable keys of geo_search.py.                                           *)
(*                                                                         *)
(* Numbers.  Travel costs are whole seconds.  Python's float("inf") is the *)
(* value Inf, absorbing under Plus; JSON null / Python None is the value   *)
(* None.  Minutes are kept as exact integers in units of 1/6000 minute     *)
(* (TimeUnit): walk_sec * pace_scale / 60 with pace_scale in hundredths is *)
(* walk_sec * pacePct units, with no rounding.  Lists are sequences; the   *)
(* source's 0-based list index k is position k + 1 (operator At).          *)
(***************************************************************************)
EXTENDS Integers, Sequences, FiniteSets, TLC

(***************************************************************************)
(* Values                                                                  *)
(***************************************************************************)
\* JSON null / Python None (a missing matrix entry, a missing src_id).
None == -1

\* Python float("inf").
Inf == 1000000000

\* a + b on floats that may be inf (all operands are >= 0).
Plus(a, b) == IF a = Inf \/ b = Inf THEN Inf ELSE a + b

\* Python "v or 0.0": None and 0 are falsy, every other number is itself.
OrZero(v) == IF v = None \/ v = 0 THEN 0 ELSE v

\* seq[k] with the source's 0-based index.
At(seq, k) == seq[k + 1]

\* len(M) of a square matrix held as a function on 0 .. n-1.
MatLen(M) == Cardinality(DOMAIN M)

Max2(a, b) == IF a >= b THEN a ELSE b
Min2(a, b) == IF a <= b THEN a ELSE b

(***************************************************************************)
(* Tour construction and refinement engine (route_bulder_foot.py)          *)
(***************************************************************************)
RECURSIVE PathSum(_, _, _)
\* the loop of path_cost: sum over i in range(len(path) - 1), from 0-based i
PathSum(path, M, i) ==
    IF i >= Len(path) - 1 THEN 0
    ELSE Plus(OrZero(M[At(path, i)][At(path, i + 1)]), PathSum(path, M, i + 1))

path_cost(path, M, roundtrip) ==
    LET c == PathSum(path, M, 0)
    IN  IF roundtrip /\ Len(path) > 1
        THEN Plus(c, OrZero(M[At(path, Len(path) - 1)][At(path, 0)]))
        ELSE c

\* key of min() in nearest_neighbor: a missing entry counts as +infinity
NNKey(M, last, j) == IF M[last][j] = None THEN Inf ELSE M[last][j]

\* min(...) returning the last minimal element in iteration order
NNPick_LastOnTies(M, last, unv) ==
    CHOOSE j \in unv :
        /\ \A k \in unv : NNKey(M, last, j) <= NNKey(M, last, k)
        /\ \A k \in unv : NNKey(M, last, k) = NNKey(M, last, j) => j >= k

\* min(unv, key=...): the first minimal element in iteration order, which for
\* a set of small ints is ascending order
NNPick(M, last, unv) ==
    CHOOSE j \in unv :
        /\ \A k \in unv : NNKey(M, last, j) <= NNKey(M, last, k)
        /\ \A k \in unv : NNKey(M, last, k) = NNKey(M, last, j) => j <= k

RECURSIVE NNExtend(_, _, _)
NNExtend(M, path, unv) ==
    IF unv = {} THEN path
    ELSE LET nxt == NNPick(M, At(path, Len(path) - 1), unv)
         IN  NNExtend(M, Append(path, nxt), unv \ {nxt})

\* nearest_neighbor without "unv.remove(start_idx)"
nearest_neighbor_KeepsStart(M, start_idx) ==
    NNExtend(M, <<start_idx>>, 0 .. MatLen(M) - 1)

nearest_neighbor(M, start_idx) ==
    NNExtend(M, <<start_idx>>, (0 .. MatLen(M) - 1) \ {start_idx})

\* best[i:j] = reversed(best[i:j]) with 0-based i, j
ReverseSlice(best, i, j) ==
    [k \in 1 .. Len(best) |->
        IF k - 1 >= i /\ k - 1 < j THEN At(best, i + j - 1 - (k - 1)) ELSE best[k]]

\* the improvement test of two_opt for the pair (i, j); costs are whole
\* seconds, so "alt + 1e-9 < cur" is "alt < cur"
TwoOptImproves(best, M, i, j) ==
    LET a == At(best, i - 1)
        b == At(best, i)
        c == At(best, j - 1)
        d == At(best, j % Len(best))
        cur == Plus(OrZero(M[a][b]), OrZero(M[c][d]))
        alt == Plus(OrZero(M[a][c]), OrZero(M[b][d]))
    IN  alt < cur

\* range(1, max(1, end_i)): the last value of i, for a tour of length n
TwoOptLastI(n, roundtrip) ==
    LET end_i == n - (IF roundtrip THEN 0 ELSE 1) - 1
    IN  Max2(1, end_i) - 1

RECURSIVE TwoOptScan_ClosingEdge(_, _, _, _, _, _)
\* a scan that, on a round trip, lets j run to len(best), so that the pair
\* (best[-1], best[0]) is an edge of the test
TwoOptScan_ClosingEdge(best, M, i, j, lastI, improved) ==
    IF i > lastI THEN [tour |-> best, improved |-> improved]
    ELSE IF j > Len(best) - (IF lastI = Len(best) - 2 THEN 0 ELSE 1)
         THEN TwoOptScan_ClosingEdge(best, M, i + 1, i + 2, lastI, improved)
    ELSE IF TwoOptImproves(best, M, i, j)
         THEN TwoOptScan_ClosingEdge(ReverseSlice(best, i, j), M, i, j + 1, lastI, TRUE)
         ELSE TwoOptScan_ClosingEdge(best, M, i, j + 1, lastI, improved)

RECURSIVE TwoOptScan(_, _, _, _, _, _)
\* one pass of the two for-loops, from the pair (i, j) on; the tour is
\* changed in place while it is scanned
TwoOptScan(best, M, i, j, lastI, improved) ==
    IF i > lastI THEN [tour |-> best, improved |-> improved]
    ELSE IF j > Len(best) - 1 THEN TwoOptScan(best, M, i + 1, i + 2, lastI, improved)
    ELSE IF TwoOptImproves(best, M, i, j)
         THEN TwoOptScan(ReverseSlice(best, i, j), M, i, j + 1, lastI, TRUE)
         ELSE TwoOptScan(best, M, i, j + 1, lastI, improved)

TwoOptPass(best, M, roundtrip) ==
    TwoOptScan(best, M, 1, 2, TwoOptLastI(Len(best), roundtrip), FALSE)

RECURSIVE TwoOptLoop_OneMore(_, _, _, _, _, _)
\* while improved and it <= max_iter
TwoOptLoop_OneMore(best, M, roundtrip, improved, it, max_iter) ==
    IF ~(improved /\ it <= max_iter) THEN [tour |-> best, it |-> it, improved |-> improved]
    ELSE LET p == TwoOptPass(best, M, roundtrip)
         IN  TwoOptLoop_OneMore(p.tour, M, roundtrip, p.improved, it + 1, max_iter)

RECURSIVE TwoOptLoop(_, _, _, _, _, _)
\* while improved and it < max_iter
TwoOptLoop(best, M, roundtrip, improved, it, max_iter) ==
    IF ~(improved /\ it < max_iter) THEN [tour |-> best, it |-> it, improved |-> improved]
    ELSE LET p == TwoOptPass(best, M, roundtrip)
         IN  TwoOptLoop(p.tour, M, roundtrip, p.improved, it + 1, max_iter)

two_opt(path, M, roundtrip, max_iter) ==
    TwoOptLoop(path, M, roundtrip, TRUE, 0, max_iter).tour


(***************************************************************************)
(* Stable keys (geo_search.py)                                             *)
(***************************************************************************)
\* (pl.get("title") or "").strip() on the titles of the model; a missing
\* title is the empty string already
Strip(t) ==
    CASE t = " cafe" -> "cafe"
      [] t = " park" -> "park"
      [] OTHER -> t

\* _make_key without the src_id branch
_make_key_TitleOnly(pl) ==
    [kind |-> "title", sid |-> None, t |-> Strip(pl.title),
     lat |-> pl.location.lat, lon |-> pl.location.lon]

\* _make_key: f"id:{sid}" when the payload has a src_id, else
\* f"title:{t}|lat:{lat}|lon:{lon}".  The formatted string is held as the
\* record of its parts: the two formats differ in their prefix (kind), and
\* each format is injective in the values it prints.
_make_key(pl) ==
    IF pl.src_id # None
    THEN [kind |-> "id", sid |-> pl.src_id, t |-> "", lat |-> None, lon |-> None]
    ELSE [kind |-> "title", sid |-> None, t |-> Strip(pl.title),
          lat |-> pl.location.lat, lon |-> pl.location.lon]

\* the payload every caller rebuilds from a row before calling _make_key
RowPayload(r) ==
    [src_id |-> r.src_id, title |-> r.title, location |-> [lat |-> r.lat, lon |-> r.lon]]

key_of(r) == _make_key(RowPayload(r))

make_stable_keys(items) == [i \in 1 .. Len(items) |-> key_of(items[i])]

\* the elements of a sequence
Range(seq) == {seq[i] : i \in 1 .. Len(seq)}

(***************************************************************************)
(* Relevance reranker (geo_search.py)                                      *)
(***************************************************************************)
\* _haversine_km for points of one meridian whose latitude is given in whole
\* kilometres along it: the great-circle distance is the difference
_haversine_km(lat1, lon1, lat2, lon2) ==
    IF lat1 >= lat2 THEN lat1 - lat2 ELSE lat2 - lat1

\* sem01 without the two clamping lines
Sem01_Unclamped(cosPct) == cosPct + 100

\* sem01 = (cos + 1) / 2 clamped to [0, 1]; cos in hundredths, sem01 in
\* units of 1/200
Sem01(cosPct) ==
    LET s == cosPct + 100
    IN  IF s < 0 THEN 0 ELSE IF s > 200 THEN 200 ELSE s

\* geo = exp(-d_km / max(geo_tau_km, 1e-6)) for geo_tau_km = 1.2, in units
\* of 1/200, rounded
GeoScore(d_km) ==
    CASE d_km = 0 -> 200
      [] d_km = 1 -> 87
      [] d_km = 2 -> 38
      [] d_km = 3 -> 16
      [] d_km = 4 -> 7
      [] d_km = 5 -> 3
      [] d_km = 6 -> 1
      [] d_km = 7 -> 1
      [] OTHER -> 0

\* a descending sort that puts equal keys in reverse order (what
\* reversing an ascending stable sort gives)
StableSortDesc_ReversedTies(seq, keys) ==
    LET n == Len(seq)
        rank(i) == Cardinality({j \in 1 .. n : keys[j] > keys[i]})
                   + Cardinality({j \in i + 1 .. n : keys[j] = keys[i]}) + 1
    IN  [p \in 1 .. n |-> seq[CHOOSE i \in 1 .. n : rank(i) = p]]

\* list.sort(key=..., reverse=True): descending by key, equal keys keep
\* their order
StableSortDesc(seq, keys) ==
    LET n == Len(seq)
        rank(i) == Cardinality({j \in 1 .. n : keys[j] > keys[i]})
                   + Cardinality({j \in 1 .. i - 1 : keys[j] = keys[i]}) + 1
    IN  [p \in 1 .. n |-> seq[CHOOSE i \in 1 .. n : rank(i) = p]]

\* seq[:k]
Prefix(seq, k) == SubSeq(seq, 1, Min2(Len(seq), Max2(k, 0)))

\* "if not loc: continue": a hit's location is <<lat, lon>>, or <<>> when the
\* payload has none
HasLocation(h) == h.location # <<>>

HARD_DROP_KM == 30

\* the row semantic_proximity_rerank builds for a hit
RerankRow(h, user_lat, user_lon, alphaPct) ==
    LET d_km == _haversine_km(user_lat, user_lon, h.location[1], h.location[2])
        sem01 == Sem01(h.score)
        geo == GeoScore(d_km)
    IN  [pid |-> h.pid, src_id |-> h.src_id, title |-> h.title,
         lat |-> h.location[1], lon |-> h.location[2],
         distance_km |-> d_km, semantic_score01 |-> sem01, geo_score |-> geo,
         final_score |-> alphaPct * sem01 + (100 - alphaPct) * geo]

\* semantic_proximity_rerank without the hard_drop_km cut
semantic_proximity_rerank_NoDrop(found, user_lat, user_lon, top_k, fetch_k, alphaPct, hard_drop_km) ==
    LET kept == SelectSeq(Prefix(found, fetch_k), HasLocation)
        rows == [i \in 1 .. Len(kept) |-> RerankRow(kept[i], user_lat, user_lon, alphaPct)]
        sorted == StableSortDesc(rows, [i \in 1 .. Len(rows) |-> rows[i].final_score])
    IN  Prefix(sorted, top_k)

semantic_proximity_rerank(found, user_lat, user_lon, top_k, fetch_k, alphaPct, hard_drop_km) ==
    LET Keep(h) == /\ HasLocation(h)
                   /\ ~(hard_drop_km # None
                        /\ _haversine_km(user_lat, user_lon, h.location[1], h.location[2])
                             > hard_drop_km)
        kept == SelectSeq(Prefix(found, fetch_k), Keep)
        rows == [i \in 1 .. Len(kept) |-> RerankRow(kept[i], user_lat, user_lon, alphaPct)]
        sorted == StableSortDesc(rows, [i \in 1 .. Len(rows) |-> rows[i].final_score])
    IN  Prefix(sorted, top_k)

\* the row semantic_topk builds for a hit
TopkRow(h) ==
    [pid |-> h.pid, src_id |-> h.src_id, title |-> h.title,
     lat |-> h.location[1], lon |-> h.location[2],
     distance_km |-> None, semantic_score01 |-> Sem01(h.score), geo_score |-> None,
     final_score |-> Sem01(h.score)]

semantic_topk(found, top_k, fetch_k) ==
    LET kept == SelectSeq(Prefix(found, fetch_k), HasLocation)
        rows == [i \in 1 .. Len(kept) |-> TopkRow(kept[i])]
        sorted == StableSortDesc(rows, [i \in 1 .. Len(rows) |-> rows[i].semantic_score01])
    IN  Prefix(sorted, top_k)

(***************************************************************************)
(* Time estimator and promotion (route_builder_limit.py)                   *)
(***************************************************************************)
\* 1/6000 minute: minutes * TimeUnit is a whole number for every pace_scale
\* given in hundredths
TimeUnit == 6000

\* walk_sec * pace_scale with walk_sec possibly inf, in units of 1/6000 min
Scale(walk_sec, pacePct) == IF walk_sec = Inf THEN Inf ELSE walk_sec * pacePct

RECURSIVE WalkSum(_, _, _)
\* for i in range(len(order) - 1): walk_sec += durations_sec[a][b] or 0.0
WalkSum(order, durations_sec, i) ==
    IF i >= Len(order) - 1 THEN 0
    ELSE Plus(OrZero(durations_sec[At(order, i)][At(order, i + 1)]),
              WalkSum(order, durations_sec, i + 1))

RECURSIVE StopSum(_, _, _)
\* for i in range(len(order) - 1): stop_min += max(0.0, dwell[order[i]])
StopSum(order, dwell, i) ==
    IF i >= Len(order) - 1 THEN 0
    ELSE Max2(0, At(dwell, At(order, i))) + StopSum(order, dwell, i + 1)

\* _sum_time_minutes without the "if roundtrip" lines
_sum_time_minutes_NoClosingLeg(order, durations_sec, roundtrip, pacePct, dwell_minutes_per_node) ==
    IF Len(order) < 2 THEN 0
    ELSE LET walk_sec == WalkSum(order, durations_sec, 0)
             stop_min == IF Len(dwell_minutes_per_node) > 0
                         THEN StopSum(order, dwell_minutes_per_node, 0)
                         ELSE 0
         IN  Plus(Scale(walk_sec, pacePct), stop_min * TimeUnit)

\* the result is minutes * TimeUnit
_sum_time_minutes(order, durations_sec, roundtrip, pacePct, dwell_minutes_per_node) ==
    IF Len(order) < 2 THEN 0
    ELSE LET legs == WalkSum(order, durations_sec, 0)
             walk_sec == IF roundtrip
                         THEN Plus(legs, OrZero(durations_sec[At(order, Len(order) - 1)][At(order, 0)]))
                         ELSE legs
             stop_min == IF Len(dwell_minutes_per_node) > 0
                         THEN StopSum(order, dwell_minutes_per_node, 0)
                         ELSE 0
         IN  Plus(Scale(walk_sec, pacePct), stop_min * TimeUnit)

\* _promote_required returning "a + rows": the promoted rows are not taken
\* out of the rest
_promote_required_KeepsCopies(rows, required_keys) ==
    LET req_set == Range(required_keys)
        InReq(r) == key_of(r) \in req_set
    IN  SelectSeq(rows, InReq) \o rows

\* _promote_required with "a.insert(0, r)" for "a.append(r)"
_promote_required_Reversed(rows, required_keys) ==
    LET req_set == Range(required_keys)
        InReq(r) == key_of(r) \in req_set
        NotInReq(r) == key_of(r) \notin req_set
        a == SelectSeq(rows, InReq)
    IN  [i \in 1 .. Len(a) |-> a[Len(a) + 1 - i]] \o SelectSeq(rows, NotInReq)

_promote_required(rows, required_keys) ==
    LET req_set == Range(required_keys)
        InReq(r) == key_of(r) \in req_set
        NotInReq(r) == key_of(r) \notin req_set
    IN  SelectSeq(rows, InReq) \o SelectSeq(rows, NotInReq)

(***************************************************************************)
(* Distance-oracle adapter (route_bulder_foot.py)                          *)
(***************************************************************************)
RETRY_COUNT == 3

\* the connection fails or times out: requests raises before any status
ConnError == 0

\* one attempt of http_get_json raises: no response, 429 or 5xx, or a status
\* raise_for_status() rejects (4xx, 5xx)
AttemptRaises(status) ==
    \/ status = ConnError
    \/ status >= 500 \/ status = 429
    \/ (status >= 400 /\ status < 600)

\* RETRY_BACKOFF = 0.6 s, in tenths of a second
RETRY_BACKOFF == 6

\* a pause of the same length after every failed attempt
Backoff_Constant(attempt) == RETRY_BACKOFF

\* line 32: RETRY_BACKOFF * (2 ** (attempt - 1))
Backoff(attempt) == RETRY_BACKOFF * 2 ^ (attempt - 1)

RECURSIVE HttpTry(_, _)
\* for attempt in range(1, RETRY_COUNT + 1): the attempt that returns, or
\* RETRY_COUNT + 1 when the loop ends by break and the function raises
HttpTry(statuses, attempt) ==
    IF ~AttemptRaises(statuses[attempt]) THEN attempt
    ELSE IF attempt = RETRY_COUNT THEN RETRY_COUNT + 1
    ELSE HttpTry(statuses, attempt + 1)

\* statuses[k] is what the server answers to the k-th attempt
http_get_json(statuses) ==
    LET last == HttpTry(statuses, 1)
    IN  [raised |-> last > RETRY_COUNT, attempts |-> Min2(last, RETRY_COUNT)]

\* osrm_table raises when http_get_json raises or the body's code is not Ok
osrm_table_raises(reply) ==
    http_get_json(reply.statuses).raised \/ reply.code # "Ok"

\* osrm_route raises when http_get_json raises, the code is not Ok or the
\* body has no routes
osrm_route_raises(reply) ==
    http_get_json(reply.statuses).raised \/ reply.code # "Ok" \/ ~reply.routes

(***************************************************************************)
(* The world of one planning call                                          *)
(***************************************************************************)
\* the most hits the similarity engine returns
MaxHits == 3

\* the points of the collection a query can hit: 1 and 2 share title and
\* coordinates and differ in src_id; 3 and 7 are two entries without src_id
\* for one title and one place; 4 lies beyond the default pin radius, 5
\* beyond the hard cutoff; 6 has no location.  Titles are stored stripped
\* (build_payload).
Catalog ==
    { [pid |-> 1, src_id |-> 1,    title |-> "cafe",   location |-> <<1, 0>>,  score |-> 80],
      [pid |-> 2, src_id |-> 2,    title |-> "cafe",   location |-> <<1, 0>>,  score |-> 70],
      [pid |-> 3, src_id |-> None, title |-> "park",   location |-> <<-2, 0>>, score |-> 60],
      [pid |-> 4, src_id |-> 3,    title |-> "museum", location |-> <<10, 0>>, score |-> 90],
      [pid |-> 5, src_id |-> 4,    title |-> "far",    location |-> <<40, 0>>, score |-> 95],
      [pid |-> 6, src_id |-> 5,    title |-> "lost",   location |-> <<>>,      score |-> 85],
      [pid |-> 7, src_id |-> None, title |-> "park",   location |-> <<-2, 0>>, score |-> 55] }

\* what the engine returns for a query: distinct points, best score first
HitLists ==
    { h \in UNION {[1 .. k -> Catalog] : k \in 0 .. MaxHits} :
        \A i, j \in 1 .. Len(h) : i < j => h[i].score > h[j].score }

\* the origin of the walk
USER_LAT == 0
USER_LON == 0

\* time_budget_hours * 60: 0.05 h, 0.45 h and 1.5 h
Budgets == {3, 27, 90}

\* pace_scale in hundredths: the default 1.0 and the wizard's 1.67
Paces == {100, 167}

\* fetch_k, alpha (hundredths), main_semantic_k, pin_radius_km, max_pois:
\* the wizard's call, and calls with a short fetch, a fetch shorter than the
\* shortlist, a wide pin radius, a cap
Profiles ==
    { [fetch_k |-> 50, alphaPct |-> 80, main_semantic_k |-> 5, pin_radius_km |-> 8,  max_pois |-> None],
      [fetch_k |-> 2,  alphaPct |-> 65, main_semantic_k |-> 1, pin_radius_km |-> 8,  max_pois |-> None],
      [fetch_k |-> 1,  alphaPct |-> 65, main_semantic_k |-> 2, pin_radius_km |-> 8,  max_pois |-> None],
      [fetch_k |-> 50, alphaPct |-> 65, main_semantic_k |-> 2, pin_radius_km |-> 50, max_pois |-> 2],
      [fetch_k |-> 50, alphaPct |-> 65, main_semantic_k |-> 1, pin_radius_km |-> 8,  max_pois |-> 0] }

\* seconds the oracle's foot profile needs per kilometre (5 km/h)
SecPerKm == 720

\* what the oracle can answer to a request
OracleReplies ==
    { [statuses |-> <<200, 200, 200>>, code |-> "Ok", routes |-> TRUE],
      [statuses |-> <<503, 200, 200>>, code |-> "Ok", routes |-> TRUE],
      [statuses |-> <<ConnError, 429, 200>>, code |-> "Ok", routes |-> TRUE],
      [statuses |-> <<ConnError, ConnError, ConnError>>, code |-> "Ok", routes |-> TRUE],
      [statuses |-> <<404, 404, 404>>, code |-> "Ok", routes |-> TRUE],
      [statuses |-> <<200, 200, 200>>, code |-> "InvalidQuery", routes |-> TRUE],
      [statuses |-> <<200, 200, 200>>, code |-> "Ok", routes |-> FALSE] }

\* the duration matrix of a table reply over the points with latitudes lats
\* (0-based), where the oracle finds no path for the ordered pairs in blocked
TableDurations(lats, blocked) ==
    [i \in 0 .. Len(lats) - 1 |->
        [j \in 0 .. Len(lats) - 1 |->
            IF <<i, j>> \in blocked THEN None
            ELSE SecPerKm * _haversine_km(At(lats, i), 0, At(lats, j), 0)]]

\* the no-path patterns of a reply: none, or one ordered pair
\* the ordered pairs of distinct indices below np
OffDiagonal(np) == {q \in (0 .. np - 1) \X (0 .. np - 1) : q[1] # q[2]}

BlockedSets(np) == {{}} \cup {{p} : p \in OffDiagonal(np)}

(***************************************************************************)
(* Budget-constrained selector: plan_route_under_budget                    *)
(***************************************************************************)
VARIABLES
    pc,                \* where the call stands: "call", "table", "search",
                       \* "after", "route", "done" (returned), "raised"
    hits,              \* what the similarity engine returns for the query
    roundtrip, pacePct, budgetMin, prof,     \* the arguments of the call
    main_semantic, main_keys, rows,
    durations_full,
    n, best_n, best_order_local, best_time_min,
    estimates,         \* log: the time_min computed for n = 1, 2, ...
    node_roles, dwell_minutes_per_node,
    legs, total_walk, total_stop,            \* build_walking_route's loop
    result,            \* the returned dict; reason "none" until it returns
    error,             \* the exception that left the call, "none" otherwise
    table_calls, route_calls,                \* oracle requests made so far
    oracle_failed,     \* log: some oracle request of the call has failed
    tpc, tM, tRound, tMaxIter, tBase, tOut,  \* the tour engine on its own
    tEst,              \* the estimator on the tour engine's output
    lpc,               \* per request, where its finalize_route coroutine stands
    running,           \* the request whose code holds the event loop's thread,
                       \* 0 when the loop is free to resume a coroutine
    clock,             \* datetime.now(), in whole seconds
    raw_name,          \* per request, the sender's name (line 258)
    outfile,           \* per request, the map file it was given
    lphase, attempt, legs_left,   \* per request, the oracle request in progress
    files,             \* ROUTES_DIR: per file name the request that wrote it
    outcome,           \* per request, how its planning call ended
    handed,            \* per request, whose map its link showed when sent
    seen, waits,       \* per request, the answers to the attempts of its latest
                       \* oracle request and the pauses time.sleep made in it
    bpc, bHit, bAlpha, bRow,      \* the blend of one hit on its own
    wst,               \* the chat's FSM state (BuildRoute.*, or "none")
    wdata,             \* the chat's FSM data: its keys and their values
    wtask,             \* the handler coroutines suspended in an answer
    wlast              \* the handler step that ran last, and the data it read

planVars == <<pc, hits, roundtrip, pacePct, budgetMin, prof, main_semantic, main_keys,
              rows, durations_full, n, best_n, best_order_local, best_time_min,
              estimates, node_roles, dwell_minutes_per_node, legs, total_walk,
              total_stop, result, error, table_calls, route_calls, oracle_failed>>

tourVars == <<tpc, tM, tRound, tMaxIter, tBase, tOut, tEst>>

loopVars == <<lpc, running, clock, raw_name, outfile, lphase, attempt, legs_left, files,
              outcome, handed, seen, waits>>

blendVars == <<bpc, bHit, bAlpha, bRow>>

wizVars == <<wst, wdata, wtask, wlast>>

vars == <<planVars, tourVars, loopVars, blendVars, wizVars>>

MAIN_DWELL == 15
EXTRA_DWELL == 3
MAX_MAIN == 5
SEARCH_MAX_ITER == 1200
SHORTLIST_MIN_FETCH == 300

\* [v] * k
Repeat(v, k) == [i \in 1 .. Max2(k, 0) |-> v]

\* the submatrix with a missing entry taken as 0
SubMatrix_NoneAsZero(df, size) ==
    [i \in 0 .. size |-> [j \in 0 .. size |-> IF df[i][j] # None THEN df[i][j] ELSE 0]]

\* M of the loop body: the (n+1) x (n+1) submatrix, None replaced by inf
SubMatrix(df, size) ==
    [i \in 0 .. size |-> [j \in 0 .. size |-> IF df[i][j] # None THEN df[i][j] ELSE Inf]]

\* order_local of the loop body
SearchOrder(df, size, rt) ==
    LET M == SubMatrix(df, size)
    IN  two_opt(nearest_neighbor(M, 0), M, rt, SEARCH_MAX_ITER)

\* dwell of the loop body: [0.0] + [15.0] * main_count + [3.0] * (n - main_count)
SearchDwell(size) ==
    LET main_count == Min2(MAX_MAIN, size)
    IN  <<0>> \o Repeat(MAIN_DWELL, main_count) \o Repeat(EXTRA_DWELL, size - main_count)

\* time_min of the loop body, in units of 1/6000 minute
SearchTime(df, size, rt, pace) ==
    _sum_time_minutes(SearchOrder(df, size, rt), SubMatrix(df, size), rt, pace, SearchDwell(size))

\* time_budget_hours * 60.0, in the same units
BudgetUnits == budgetMin * TimeUnit

\* the test with a quarter of an hour of slack
Feasible_Lenient(time_min, budget) == time_min <= budget + 15 * 6000

\* the test with < for <=
Feasible_Strict(time_min, budget) == time_min < budget

\* line 176: if time_min <= time_budget_hours * 60.0
Feasible(time_min, budget) == time_min <= budget

\* the loop over range(1, len(all_points) - 1)
HasNextSize_StopsEarly(size, np) == size + 1 < np - 1

\* line 160: for n in range(1, len(all_points)) has a value after size
HasNextSize(size, np) == size + 1 < np

NoResult ==
    [reason |-> "none", selected_poi |-> <<>>, estimated_minutes |-> None,
     estimated_minutes_fast |-> None, order |-> <<>>, fixed_order |-> <<>>,
     legs |-> <<>>, total_hours |-> None, node_roles |-> <<>>,
     main_semantic |-> <<>>, main_semantic_not_in_route |-> <<>>]

NoMatrix == [i \in {} |-> 0]

PlanIdle ==
    /\ pc = "idle" /\ hits = <<>> /\ roundtrip = FALSE /\ pacePct = 100
    /\ budgetMin = 0 /\ prof = [fetch_k |-> 0]
    /\ main_semantic = <<>> /\ main_keys = <<>> /\ rows = <<>>
    /\ durations_full = NoMatrix
    /\ n = 0 /\ best_n = 0 /\ best_order_local = <<>> /\ best_time_min = Inf
    /\ estimates = <<>> /\ node_roles = <<>> /\ dwell_minutes_per_node = <<>>
    /\ legs = <<>> /\ total_walk = 0 /\ total_stop = 0
    /\ result = NoResult /\ error = "none"
    /\ table_calls = 0 /\ route_calls = 0 /\ oracle_failed = FALSE

TourIdle ==
    /\ tpc = "idle" /\ tM = NoMatrix /\ tRound = FALSE /\ tMaxIter = 0
    /\ tBase = <<>> /\ tOut = <<>> /\ tEst = <<>>

LoopIdle ==
    /\ lpc = <<>> /\ running = 0 /\ clock = 0 /\ raw_name = <<>> /\ outfile = <<>>
    /\ lphase = <<>> /\ attempt = <<>> /\ legs_left = <<>> /\ files = <<>>
    /\ outcome = <<>> /\ handed = <<>> /\ seen = <<>> /\ waits = <<>>

BlendIdle == bpc = "idle" /\ bHit = <<>> /\ bAlpha = 0 /\ bRow = <<>>

WizIdle ==
    /\ wst = "idle" /\ wdata = <<>> /\ wtask = <<>> /\ wlast = <<>>

\* a call of plan_route_under_budget with its arguments, before its first line
Init ==
    /\ pc = "call"
    /\ hits \in HitLists
    /\ roundtrip \in BOOLEAN
    /\ pacePct \in Paces
    /\ budgetMin \in Budgets
    /\ prof \in Profiles
    /\ main_semantic = <<>> /\ main_keys = <<>> /\ rows = <<>>
    /\ durations_full = NoMatrix
    /\ n = 0 /\ best_n = 0 /\ best_order_local = <<>> /\ best_time_min = Inf
    /\ estimates = <<>> /\ node_roles = <<>> /\ dwell_minutes_per_node = <<>>
    /\ legs = <<>> /\ total_walk = 0 /\ total_stop = 0
    /\ result = NoResult /\ error = "none"
    /\ table_calls = 0 /\ route_calls = 0 /\ oracle_failed = FALSE
    /\ TourIdle /\ LoopIdle /\ BlendIdle /\ WizIdle

\* promoted_keys without the "d <= pin_radius_km" test
PromotedKeys_NoRadius(shortlist, pin_radius_km) == make_stable_keys(shortlist)

\* the keys of the shortlist items within pin_radius_km of the origin
PromotedKeys(shortlist, pin_radius_km) ==
    LET Near(ms) == _haversine_km(USER_LAT, USER_LON, ms.lat, ms.lon) <= pin_radius_km
    IN  make_stable_keys(SelectSeq(shortlist, Near))

\* lines 134-148: promotion, then the max_pois cut
PromoteAndCut(ranked, shortlist, pin_radius_km, max_pois) ==
    LET promoted_keys == PromotedKeys(shortlist, pin_radius_km)
        promoted == IF Len(promoted_keys) > 0
                    THEN _promote_required(ranked, promoted_keys)
                    ELSE ranked
    IN  IF max_pois # None THEN Prefix(promoted, max_pois) ELSE promoted

\* lines 112-152: the two retrievals, the no_candidates return, promotion
Retrieve ==
    /\ pc = "call"
    /\ LET shortlist == semantic_topk(hits, prof.main_semantic_k,
                                      Max2(prof.fetch_k, SHORTLIST_MIN_FETCH))
           ranked == semantic_proximity_rerank(hits, USER_LAT, USER_LON, prof.fetch_k,
                                               prof.fetch_k, prof.alphaPct, HARD_DROP_KM)
       IN  /\ main_semantic' = shortlist
           /\ main_keys' = make_stable_keys(shortlist)
           /\ IF Len(ranked) = 0
              THEN /\ rows' = ranked
                   /\ result' = [NoResult EXCEPT !.reason = "no_candidates",
                                                 !.main_semantic = shortlist]
                   /\ pc' = "done"
              ELSE /\ rows' = PromoteAndCut(ranked, shortlist, prof.pin_radius_km, prof.max_pois)
                   /\ result' = result
                   /\ pc' = "table"
    /\ UNCHANGED <<hits, roundtrip, pacePct, budgetMin, prof, durations_full, n, best_n,
                   best_order_local, best_time_min, estimates, node_roles,
                   dwell_minutes_per_node, legs, total_walk, total_stop, error,
                   table_calls, route_calls, oracle_failed, tourVars, loopVars, blendVars, wizVars>>

\* all_points made of the origin and the first candidate only
TablePoints_OriginAndFirst(rws) == <<USER_LAT>> \o [i \in 1 .. Min2(1, Len(rws)) |-> rws[i].lat]

\* lines 150-152: all_points = [start] + pois, as the latitudes of the points
TablePoints(rws) == <<USER_LAT>> \o [i \in 1 .. Len(rws) |-> rws[i].lat]

\* line 154: osrm_table(all_points); the assert fails on fewer than 2 points
TableCall ==
    /\ pc = "table"
    /\ IF Len(rows) + 1 < 2
       THEN /\ pc' = "raised" /\ error' = "AssertionError"
            /\ UNCHANGED <<durations_full, table_calls, n, oracle_failed>>
       ELSE \E reply \in OracleReplies, blocked \in BlockedSets(Len(rows) + 1) :
              /\ table_calls' = table_calls + 1
              /\ oracle_failed' = osrm_table_raises(reply)
              /\ IF osrm_table_raises(reply)
                 THEN /\ pc' = "raised" /\ error' = "RuntimeError"
                      /\ UNCHANGED <<durations_full, n>>
                 ELSE /\ durations_full' = TableDurations(TablePoints(rows), blocked)
                      /\ n' = 1
                      /\ pc' = "search" /\ error' = error
    /\ UNCHANGED <<hits, roundtrip, pacePct, budgetMin, prof, main_semantic, main_keys, rows,
                   best_n, best_order_local, best_time_min, estimates, node_roles,
                   dwell_minutes_per_node, legs, total_walk, total_stop, result,
                   route_calls, tourVars, loopVars, blendVars, wizVars>>

\* lines 160-182: one iteration of the feasibility loop, for the size n
SearchStep ==
    /\ pc = "search"
    /\ LET order_local == SearchOrder(durations_full, n, roundtrip)
           time_min == SearchTime(durations_full, n, roundtrip, pacePct)
       IN  /\ estimates' = Append(estimates, time_min)
           /\ IF Feasible(time_min, BudgetUnits)
              THEN /\ best_n' = n
                   /\ best_order_local' = order_local
                   /\ best_time_min' = time_min
                   /\ IF HasNextSize(n, Len(rows) + 1)
                      THEN n' = n + 1 /\ pc' = "search"
                      ELSE n' = n /\ pc' = "after"
              ELSE /\ pc' = "after"
                   /\ UNCHANGED <<n, best_n, best_order_local, best_time_min>>
    /\ UNCHANGED <<hits, roundtrip, pacePct, budgetMin, prof, main_semantic, main_keys, rows,
                   durations_full, node_roles, dwell_minutes_per_node, legs, total_walk,
                   total_stop, result, error, table_calls, route_calls, oracle_failed,
                   tourVars, loopVars, blendVars, wizVars>>

\* node_roles without the entry of the origin
FinalRoles_NoStart(selected_rows, keys) ==
    [i \in 1 .. Len(selected_rows) |->
        IF key_of(selected_rows[i]) \in Range(keys) THEN "main" ELSE "additional"]

\* node_roles of lines 204-209
FinalRoles(selected_rows, keys) ==
    <<"start">> \o [i \in 1 .. Len(selected_rows) |->
                      IF key_of(selected_rows[i]) \in Range(keys) THEN "main" ELSE "additional"]

\* dwell_minutes_per_node of line 211
FinalDwell(roles) ==
    <<0>> \o [i \in 1 .. Len(roles) - 1 |->
                IF roles[i + 1] = "main" THEN MAIN_DWELL ELSE EXTRA_DWELL]

\* lines 184-229: the time_budget_too_small return, or the entry into
\* build_walking_route with the fixed order
AfterSearch ==
    /\ pc = "after"
    /\ IF best_n = 0
       THEN /\ result' = [NoResult EXCEPT !.reason = "time_budget_too_small",
                                          !.estimated_minutes = best_time_min,
                                          !.main_semantic = main_semantic]
            /\ pc' = "done"
            /\ UNCHANGED <<node_roles, dwell_minutes_per_node>>
       ELSE /\ node_roles' = FinalRoles(Prefix(rows, best_n), main_keys)
            /\ dwell_minutes_per_node' = FinalDwell(FinalRoles(Prefix(rows, best_n), main_keys))
            /\ result' = result
            /\ pc' = "route"
    /\ UNCHANGED <<hits, roundtrip, pacePct, budgetMin, prof, main_semantic, main_keys, rows,
                   durations_full, n, best_n, best_order_local, best_time_min, estimates,
                   legs, total_walk, total_stop, error, table_calls, route_calls,
                   oracle_failed, tourVars, loopVars, blendVars, wizVars>>

\* seq without the return to the start
RouteSeq_NoReturn(order, rt) == order

\* seq of build_walking_route: order + ([order[0]] if roundtrip else [])
RouteSeq(order, rt) == IF rt THEN Append(order, order[1]) ELSE order

\* main_semantic_not_in_route with "in selected_keys" for "not in"
NotInRoute_Inverted(shortlist, selected_rows) ==
    LET selected_keys == Range(make_stable_keys(selected_rows))
        Present(ms) == key_of(ms) \in selected_keys
    IN  SelectSeq(shortlist, Present)

\* main_semantic_not_in_route of lines 231-236
NotInRoute(shortlist, selected_rows) ==
    LET selected_keys == Range(make_stable_keys(selected_rows))
        Missing(ms) == key_of(ms) \notin selected_keys
    IN  SelectSeq(shortlist, Missing)

\* build_walking_route lines 204-239: the leg i = len(legs) of the loop, with
\* its osrm_route request; after the last leg the function returns and
\* plan_route_under_budget fills in and returns the result (lines 238-246).
\* The oracle is consistent: a route's duration is the table's entry, and a
\* pair without a path has no route.
RouteLeg ==
    /\ pc = "route"
    /\ LET seq == RouteSeq(best_order_local, roundtrip)
           i == Len(legs)
           a == At(seq, i)
           b == At(seq, i + 1)
           dur_osrm == durations_full[a][b]
       IN  \E reply \in OracleReplies :
             /\ dur_osrm = None => ~reply.routes
             /\ route_calls' = route_calls + 1
             /\ oracle_failed' = osrm_route_raises(reply)
             /\ IF osrm_route_raises(reply)
                THEN /\ pc' = "raised" /\ error' = "RuntimeError"
                     /\ UNCHANGED <<legs, total_walk, total_stop, result>>
                ELSE LET walk == dur_osrm * pacePct
                         is_last_leg == (i = Len(seq) - 2)
                         stop == IF ~is_last_leg /\ Len(dwell_minutes_per_node) > 0
                                 THEN Max2(0, IF 0 <= b /\ b < Len(dwell_minutes_per_node)
                                              THEN At(dwell_minutes_per_node, b) ELSE 0)
                                      * TimeUnit
                                 ELSE 0
                         leg == [from_idx |-> a, to_idx |-> b, walk_min |-> walk,
                                 stop_min_after |-> stop,
                                 cum_min_total |-> total_walk + walk + total_stop + stop]
                     IN  /\ legs' = Append(legs, leg)
                         /\ total_walk' = total_walk + walk
                         /\ total_stop' = total_stop + stop
                         /\ error' = error
                         /\ IF is_last_leg
                            THEN /\ pc' = "done"
                                 /\ result' =
                                      [reason |-> "ok_under_budget",
                                       selected_poi |-> Prefix(rows, best_n),
                                       estimated_minutes |-> None,
                                       estimated_minutes_fast |-> best_time_min,
                                       order |-> best_order_local,
                                       fixed_order |-> best_order_local,
                                       legs |-> Append(legs, leg),
                                       total_hours |-> total_walk + walk + total_stop + stop,
                                       node_roles |-> node_roles,
                                       main_semantic |-> main_semantic,
                                       main_semantic_not_in_route |->
                                           NotInRoute(main_semantic, Prefix(rows, best_n))]
                            ELSE /\ pc' = "route" /\ result' = result
    /\ UNCHANGED <<hits, roundtrip, pacePct, budgetMin, prof, main_semantic, main_keys, rows,
                   durations_full, n, best_n, best_order_local, best_time_min, estimates,
                   node_roles, dwell_minutes_per_node, table_calls, tourVars, loopVars, blendVars, wizVars>>

Next == Retrieve \/ TableCall \/ SearchStep \/ AfterSearch \/ RouteLeg

Spec == Init /\ [][Next]_vars

(***************************************************************************)
(* The tour engine on its own: nearest_neighbor, then two_opt, on a matrix *)
(***************************************************************************)
\* the most points of a matrix
MaxTourN == 4

\* the costs of the symmetric part of a matrix
TourCosts == {1, 5}

\* what one entry may be changed to: a free leg, a long leg, no path
OverrideCosts == {0, 9, None}

\* the matrices over np points: a symmetric matrix with zero diagonal, in
\* which at most one entry is changed (making it asymmetric)
TourMatrices(np) ==
    LET pairs == {q \in OffDiagonal(np) : q[1] < q[2]}
        Sym(f) == [i \in 0 .. np - 1 |-> [j \in 0 .. np - 1 |->
                      IF i = j THEN 0 ELSE IF i < j THEN f[<<i, j>>] ELSE f[<<j, i>>]]]
    IN  {Sym(f) : f \in [pairs -> TourCosts]}
        \cup {[Sym(f) EXCEPT ![q[1]][q[2]] = v] :
                f \in [pairs -> TourCosts], q \in OffDiagonal(np), v \in OverrideCosts}

\* max_iter of two_opt
MaxIters == {1, 3}

InitTour ==
    /\ tpc = "input"
    /\ \E np \in 1 .. MaxTourN : tM \in TourMatrices(np)
    /\ tRound \in BOOLEAN
    /\ tMaxIter \in MaxIters
    /\ tBase = <<>> /\ tOut = <<>> /\ tEst = <<>>
    /\ PlanIdle /\ LoopIdle /\ BlendIdle /\ WizIdle

\* base = nearest_neighbor(M, start_idx=0)
TourBuild ==
    /\ tpc = "input"
    /\ tBase' = nearest_neighbor(tM, 0)
    /\ tpc' = "built"
    /\ UNCHANGED <<tM, tRound, tMaxIter, tOut, tEst, planVars, loopVars, blendVars, wizVars>>

\* order = two_opt(base, M, roundtrip, max_iter)
TourRefine ==
    /\ tpc = "built"
    /\ tOut' = two_opt(tBase, tM, tRound, tMaxIter)
    /\ tpc' = "refined"
    /\ UNCHANGED <<tM, tRound, tMaxIter, tBase, tEst, planVars, loopVars, blendVars, wizVars>>

\* _sum_time_minutes(order, M, roundtrip, pace_scale,
\* dwell_minutes_per_node=dwell) on the refined tour, with the dwell list the
\* search gives a tour over that many points
TourEstimate ==
    /\ tpc = "refined"
    /\ \E pace \in Paces :
          tEst' = [pace |-> pace,
                   dwell |-> SearchDwell(Len(tOut) - 1),
                   minutes |-> _sum_time_minutes(tOut, tM, tRound, pace,
                                                 SearchDwell(Len(tOut) - 1))]
    /\ tpc' = "estimated"
    /\ UNCHANGED <<tM, tRound, tMaxIter, tBase, tOut, planVars, loopVars, blendVars, wizVars>>

NextTour == TourBuild \/ TourRefine \/ TourEstimate

SpecTour == InitTour /\ [][NextTour]_vars

(***************************************************************************)
(* Concurrent requests on one event loop: finalize_route (app.py) awaiting *)
(* plan_route_under_budget, whose oracle requests go through http_get_json *)
(***************************************************************************)
\* the requests in flight at once
NumRequests == 2

\* the last second of the clock
MaxClock == 1

Requests == 1 .. NumRequests

\* raw_name of line 258: a username, or "first last" of a sender without one
RawNames == {"anna", "ivan_petrov", "ivan petrov"}

\* re.sub(r"[^A-Za-z0-9_.-]+", "_", raw_name)[:40] on the names of the model
SafeUser(raw) == IF raw = "ivan petrov" THEN "ivan_petrov" ELSE raw

\* f"route_{safe_user}_{ts}.html" with ts = now().strftime("%Y%m%d_%H%M%S"),
\* held as the pair of the values it prints
FileName(raw, now) == <<SafeUser(raw), now>>

FileNames == {FileName(u, t) : u \in RawNames, t \in 0 .. MaxClock}

\* what the server answers to one attempt
AttemptStatuses == {200, 503}

\* the number of legs of a plan that fits the budget
LegCounts == {1, 2}

\* the updates of NumRequests senders have been dispatched to finalize_route
InitLoop ==
    /\ lpc = [r \in Requests |-> "new"]
    /\ running = 0
    /\ clock = 0
    /\ raw_name \in [Requests -> RawNames]
    /\ outfile = [r \in Requests |-> <<>>]
    /\ lphase = [r \in Requests |-> "none"]
    /\ attempt = [r \in Requests |-> 0]
    /\ legs_left = [r \in Requests |-> 0]
    /\ files = [f \in FileNames |-> 0]
    /\ outcome = [r \in Requests |-> "none"]
    /\ handed = [r \in Requests |-> 0]
    /\ seen = [r \in Requests |-> <<>>]
    /\ waits = [r \in Requests |-> <<>>]
    /\ PlanIdle /\ TourIdle /\ BlendIdle /\ WizIdle

\* the log of the request in progress: it starts empty with the first attempt
CallLog(log, att) == IF att = 1 THEN <<>> ELSE log

\* time passes, whatever the thread is doing
Tick ==
    /\ clock < MaxClock
    /\ clock' = clock + 1
    /\ UNCHANGED <<lpc, running, raw_name, outfile, lphase, attempt, legs_left, files,
                   outcome, handed, seen, waits,
                   planVars, tourVars, blendVars, wizVars>>

\* finalize_route lines 253-264: the file name is built from the sender's
\* name and the clock, then the coroutine suspends in "await m.answer(...)"
Start(r) ==
    /\ running = 0
    /\ lpc[r] = "new"
    /\ outfile' = [outfile EXCEPT ![r] = FileName(raw_name[r], clock)]
    /\ lpc' = [lpc EXCEPT ![r] = "announce"]
    /\ UNCHANGED <<running, clock, raw_name, lphase, attempt, legs_left, files, outcome,
                   handed, seen, waits,
                   planVars, tourVars, blendVars, wizVars>>

\* line 266: the loop resumes the coroutine, which runs
\* plan_route_under_budget up to its first oracle request (lines 112-154).
\* The function is "async def" without any await: from here to its return
\* the thread is not given back to the loop.
PlanEnter(r) ==
    /\ running = 0
    /\ lpc[r] = "announce"
    /\ \/ /\ lpc' = [lpc EXCEPT ![r] = "done"]
          /\ outcome' = [outcome EXCEPT ![r] = "no_candidates"]
          /\ UNCHANGED <<running, lphase, attempt>>
       \/ /\ lpc' = [lpc EXCEPT ![r] = "oracle"]
          /\ lphase' = [lphase EXCEPT ![r] = "table"]
          /\ attempt' = [attempt EXCEPT ![r] = 1]
          /\ running' = r
          /\ UNCHANGED outcome
    /\ UNCHANGED <<clock, raw_name, outfile, legs_left, files, handed,
                   seen, waits,
                   planVars, tourVars, blendVars, wizVars>>

\* http_get_json lines 20-32: sess.get(...) returns or raises for the
\* attempt in progress.  A failed attempt before the last goes to
\* time.sleep; the last one raises, and finalize_route answers the sender
\* (lines 279-281).  A table answer is followed by the feasibility search,
\* the last route answer by fmap.save(outfile) and the return to
\* finalize_route, which suspends in "await m.answer(guide_text)".
OracleAnswer(r) ==
    /\ running = r
    /\ lpc[r] = "oracle"
    /\ \E status \in AttemptStatuses :
         /\ seen' = [seen EXCEPT ![r] = Append(CallLog(seen[r], attempt[r]), status)]
         /\ waits' = [waits EXCEPT ![r] =
                        IF AttemptRaises(status) /\ attempt[r] # RETRY_COUNT
                        THEN Append(CallLog(waits[r], attempt[r]), Backoff(attempt[r]))
                        ELSE CallLog(waits[r], attempt[r])]
         /\ IF AttemptRaises(status)
            THEN IF attempt[r] = RETRY_COUNT
                 THEN /\ lpc' = [lpc EXCEPT ![r] = "done"]
                      /\ outcome' = [outcome EXCEPT ![r] = "error"]
                      /\ running' = 0
                      /\ UNCHANGED <<lphase, attempt, legs_left, files>>
                 ELSE /\ lpc' = [lpc EXCEPT ![r] = "backoff"]
                      /\ UNCHANGED <<running, lphase, attempt, legs_left, files, outcome>>
            ELSE IF lphase[r] = "table"
                 THEN \/ /\ lpc' = [lpc EXCEPT ![r] = "done"]
                         /\ outcome' = [outcome EXCEPT ![r] = "time_budget_too_small"]
                         /\ running' = 0
                         /\ UNCHANGED <<lphase, attempt, legs_left, files>>
                      \/ \E k \in LegCounts :
                           /\ lphase' = [lphase EXCEPT ![r] = "route"]
                           /\ legs_left' = [legs_left EXCEPT ![r] = k]
                           /\ attempt' = [attempt EXCEPT ![r] = 1]
                           /\ UNCHANGED <<lpc, running, files, outcome>>
                 ELSE IF legs_left[r] > 1
                      THEN /\ legs_left' = [legs_left EXCEPT ![r] = legs_left[r] - 1]
                           /\ attempt' = [attempt EXCEPT ![r] = 1]
                           /\ UNCHANGED <<lpc, running, lphase, files, outcome>>
                      ELSE /\ legs_left' = [legs_left EXCEPT ![r] = 0]
                           /\ files' = [files EXCEPT ![outfile[r]] = r]
                           /\ outcome' = [outcome EXCEPT ![r] = "ok_under_budget"]
                           /\ lpc' = [lpc EXCEPT ![r] = "guide"]
                           /\ running' = 0
                           /\ UNCHANGED <<lphase, attempt>>
    /\ UNCHANGED <<clock, raw_name, outfile, handed,
                   planVars, tourVars, blendVars, wizVars>>

\* http_get_json line 32: time.sleep(RETRY_BACKOFF * 2 ** (attempt - 1))
\* returns and the next attempt starts
BackoffEnd(r) ==
    /\ running = r
    /\ lpc[r] = "backoff"
    /\ attempt' = [attempt EXCEPT ![r] = attempt[r] + 1]
    /\ lpc' = [lpc EXCEPT ![r] = "oracle"]
    /\ UNCHANGED <<running, clock, raw_name, outfile, lphase, legs_left, files, outcome,
                   handed, seen, waits,
                   planVars, tourVars, blendVars, wizVars>>

\* lines 344-351: the loop resumes the coroutine, which sends the link
\* f"{PUBLIC_BASE_URL}/routes/{filename}"; the sender opens the file as it
\* is then
SendLink(r) ==
    /\ running = 0
    /\ lpc[r] = "guide"
    /\ handed' = [handed EXCEPT ![r] = files[outfile[r]]]
    /\ lpc' = [lpc EXCEPT ![r] = "done"]
    /\ UNCHANGED <<running, clock, raw_name, outfile, lphase, attempt, legs_left, files,
                   outcome, seen, waits,
                   planVars, tourVars, blendVars, wizVars>>

\* the loop resumes a suspended coroutine
Resume(r) == Start(r) \/ PlanEnter(r) \/ SendLink(r)

NextLoop ==
    \/ Tick
    \/ \E r \in Requests : Start(r)
    \/ \E r \in Requests : PlanEnter(r)
    \/ \E r \in Requests : OracleAnswer(r)
    \/ \E r \in Requests : BackoffEnd(r)
    \/ \E r \in Requests : SendLink(r)

SpecLoop == InitLoop /\ [][NextLoop]_vars

(***************************************************************************)
(* The blend of one hit on its own: the loop body of                       *)
(* semantic_proximity_rerank (geo_search.py lines 91-127)                  *)
(***************************************************************************)
\* cosine scores in hundredths, with the values a rounding error can push
\* beyond -1 and 1
BlendCos == {-101, -100, -40, 0, 55, 100, 101}

\* distances from the origin, in km
BlendKms == {0, 1, 2, 3, 6, 7, 30}

\* alpha in hundredths, over [0, 1]
BlendAlphas == {0, 35, 65, 80, 100}

InitBlend ==
    /\ bpc = "hit"
    /\ bHit \in {[pid |-> 0, src_id |-> None, title |-> "", location |-> <<d, 0>>, score |-> c] :
                   d \in BlendKms, c \in BlendCos}
    /\ bAlpha \in BlendAlphas
    /\ bRow = <<>>
    /\ PlanIdle /\ TourIdle /\ LoopIdle /\ WizIdle

\* lines 97-127 for the hit: the row with its three scores
BlendRow ==
    /\ bpc = "hit"
    /\ bRow' = RerankRow(bHit, USER_LAT, USER_LON, bAlpha)
    /\ bpc' = "blended"
    /\ UNCHANGED <<bHit, bAlpha, planVars, tourVars, loopVars, wizVars>>

NextBlend == BlendRow

SpecBlend == InitBlend /\ [][NextBlend]_vars

(***************************************************************************)
(* The chat wizard of app.py: one chat, its FSM state and data, and the    *)
(* handler coroutines of its updates.  The dispatcher handles every update *)
(* in a task of its own; a handler runs until it awaits an answer to the   *)
(* chat, and other updates are handled while it is suspended there.        *)
(***************************************************************************)

\* the handler coroutines that may be suspended at one time
MaxPending == 1

Slots == 1 .. MaxPending

\* float("nan"): a value every comparison with which is false
NaN == 999999

\* a <= b and a > b on floats
FLe(a, b) == a # NaN /\ b # NaN /\ a <= b
FGt(a, b) == a # NaN /\ b # NaN /\ a > b

\* what a user may type where a number is asked for
NumTexts == {"1,5", "24", "0", "24.5", "44,0", "200", "91", "nan", "abc"}

\* float(text.strip().replace(",", ".")): the value in tenths, or ValueError
ParseNum(text) ==
    CASE text = "1,5"  -> [ok |-> TRUE, val |-> 15]
      [] text = "24"   -> [ok |-> TRUE, val |-> 240]
      [] text = "0"    -> [ok |-> TRUE, val |-> 0]
      [] text = "24.5" -> [ok |-> TRUE, val |-> 245]
      [] text = "44,0" -> [ok |-> TRUE, val |-> 440]
      [] text = "200"  -> [ok |-> TRUE, val |-> 2000]
      [] text = "91"   -> [ok |-> TRUE, val |-> 910]
      [] text = "nan"  -> [ok |-> TRUE, val |-> NaN]
      [] OTHER         -> [ok |-> FALSE, val |-> 0]

\* lines 143-144: if hours <= 0 or hours > 24: raise ValueError
HoursRejected(hours) == FLe(hours, 0) \/ FGt(hours, 240)

\* lines 204-205: if not (-180.0 <= lon <= 180.0): raise ValueError
LonRejected(lon) == ~(FLe(-1800, lon) /\ FLe(lon, 1800))

\* lines 217-218: if not (-90.0 <= lat <= 90.0): raise ValueError
LatRejected(lat) == ~(FLe(-900, lat) /\ FLe(lat, 900))

\* (m.text or "").strip() of the messages a user may send as interests or
\* as an address: a text, blanks, a message without text
FreeTexts == {"art", ""}

\* state.clear(): no state, no data
EmptyData == [keys |-> {}, interests |-> "", hours |-> 0, lon |-> 0]

\* state.update_data(key=value)
SetInterests(data, v) == [data EXCEPT !.keys = @ \cup {"interests"}, !.interests = v]
SetHours(data, v) == [data EXCEPT !.keys = @ \cup {"hours"}, !.hours = v]
SetLon(data, v) == [data EXCEPT !.keys = @ \cup {"lon"}, !.lon = v]

FreeTask == [at |-> "free", snap |-> EmptyData]

\* a step that read no data of the session
Did(step) == [step |-> step, arg |-> EmptyData]

\* the bot has started; the chat has no state and no data
InitWizard ==
    /\ wst = "none"
    /\ wdata = EmptyData
    /\ wtask = [s \in Slots |-> FreeTask]
    /\ wlast = Did("boot")
    /\ PlanIdle /\ TourIdle /\ LoopIdle /\ BlendIdle

\* cmd_start, lines 105-108: /start in any state
CmdStart ==
    /\ wst' = "none" /\ wdata' = EmptyData
    /\ wlast' = Did("cmd_start")
    /\ UNCHANGED <<wtask, planVars, tourVars, loopVars, blendVars>>

\* cmd_restart with send_step1, lines 110-114 and 101-103: /restart or /new
\* in any state
CmdRestart ==
    /\ \E cmd \in {"restart", "new"} :
          /\ wst' = "interests" /\ wdata' = EmptyData
          /\ wlast' = Did("cmd_restart")
    /\ UNCHANGED <<wtask, planVars, tourVars, loopVars, blendVars>>

\* cb_restart, lines 116-120: the "restart" button in any state
CbRestart ==
    /\ wst' = "interests" /\ wdata' = EmptyData
    /\ wlast' = Did("cb_restart")
    /\ UNCHANGED <<wtask, planVars, tourVars, loopVars, blendVars>>

\* cb_start_wizard, lines 122-125: the "start_wizard" button in any state;
\* the data is not cleared
CbStartWizard ==
    /\ wst' = "interests"
    /\ wlast' = Did("cb_start_wizard")
    /\ UNCHANGED <<wdata, wtask, planVars, tourVars, loopVars, blendVars>>

\* ask_hours, lines 127-135: a message that is no command, in state interests
AskHours ==
    /\ wst = "interests"
    /\ \E text \in FreeTexts : wdata' = SetInterests(wdata, text)
    /\ wst' = "hours"
    /\ wlast' = Did("ask_hours")
    /\ UNCHANGED <<wtask, planVars, tourVars, loopVars, blendVars>>

\* ask_location_method, lines 137-154: a message in state hours
AskLocationMethod ==
    /\ wst = "hours"
    /\ \E text \in NumTexts :
          IF ~ParseNum(text).ok \/ HoursRejected(ParseNum(text).val)
          THEN /\ UNCHANGED <<wst, wdata>>
               /\ wlast' = Did("ask_location_method_again")
          ELSE /\ wdata' = SetHours(wdata, ParseNum(text).val)
               /\ wst' = "location_method"
               /\ wlast' = Did("ask_location_method")
    /\ UNCHANGED <<wtask, planVars, tourVars, loopVars, blendVars>>

\* choose_addr, choose_coords, choose_geo, lines 156-172: a location button
\* pressed in state location_method
ChooseLocation ==
    /\ wst = "location_method"
    /\ \E btn \in {"loc_addr", "loc_coord", "loc_geo"} :
          /\ wst' = CASE btn = "loc_addr" -> "address"
                      [] btn = "loc_coord" -> "coord_lon"
                      [] OTHER -> "geo"
          /\ wlast' = Did(btn)
    /\ UNCHANGED <<wdata, wtask, planVars, tourVars, loopVars, blendVars>>

\* got_address, lines 174-185: a message in state address; an address that
\* is not empty is announced with "await m.answer(...)"
GotAddress ==
    /\ wst = "address"
    /\ \E text \in FreeTexts :
          IF text = ""
          THEN /\ wst' = "location_method"
               /\ wlast' = Did("got_address_empty")
               /\ UNCHANGED wtask
          ELSE \E s \in Slots :
                 /\ wtask[s].at = "free"
                 /\ wtask' = [wtask EXCEPT ![s].at = "addr_wait"]
                 /\ wlast' = Did("got_address")
                 /\ UNCHANGED wst
    /\ UNCHANGED <<wdata, planVars, tourVars, loopVars, blendVars>>

\* got_address, lines 186-196: geocode_nominatim has answered
AddressGeocoded(s) ==
    /\ wtask[s].at = "addr_wait"
    /\ \E found \in BOOLEAN :
          IF found
          THEN /\ wtask' = [wtask EXCEPT ![s].at = "located"]
               /\ wlast' = Did("got_address_found")
               /\ UNCHANGED wst
          ELSE /\ wtask' = [wtask EXCEPT ![s] = FreeTask]
               /\ wst' = "location_method"
               /\ wlast' = Did("got_address_not_found")
    /\ UNCHANGED <<wdata, planVars, tourVars, loopVars, blendVars>>

\* got_lon, lines 200-211: a message in state coord_lon
GotLon ==
    /\ wst = "coord_lon"
    /\ \E text \in NumTexts :
          IF ~ParseNum(text).ok \/ LonRejected(ParseNum(text).val)
          THEN /\ UNCHANGED <<wst, wdata>>
               /\ wlast' = Did("got_lon_again")
          ELSE /\ wdata' = SetLon(wdata, ParseNum(text).val)
               /\ wst' = "coord_lat"
               /\ wlast' = Did("got_lon")
    /\ UNCHANGED <<wtask, planVars, tourVars, loopVars, blendVars>>

\* finalize_route, lines 253-264: data["interests"] and data["hours"] are
\* read (KeyError ends the coroutine), then "Строю маршрут..." is sent
FinalizeEntry(s) ==
    /\ wlast' = [step |-> "finalize_route", arg |-> wdata]
    /\ IF {"interests", "hours"} \subseteq wdata.keys
       THEN wtask' = [wtask EXCEPT ![s] = [at |-> "announce", snap |-> wdata]]
       ELSE wtask' = [wtask EXCEPT ![s] = FreeTask]

\* got_lat, lines 213-229: a message in state coord_lat
GotLat ==
    /\ wst = "coord_lat"
    /\ \E text \in NumTexts :
          IF ~ParseNum(text).ok \/ LatRejected(ParseNum(text).val)
          THEN /\ wlast' = Did("got_lat_again")
               /\ UNCHANGED wtask
          ELSE IF "lon" \notin wdata.keys
               THEN /\ wlast' = Did("got_lat_no_lon")
                    /\ UNCHANGED wtask
               ELSE \E s \in Slots :
                      /\ wtask[s].at = "free"
                      /\ FinalizeEntry(s)
    /\ UNCHANGED <<wst, wdata, planVars, tourVars, loopVars, blendVars>>

\* got_geo and geo_expected, lines 231-240: a message in state geo; a
\* location is acknowledged with "await m.answer(...)"
GotGeo ==
    /\ wst = "geo"
    /\ \E has_location \in BOOLEAN :
          IF has_location
          THEN \E s \in Slots :
                 /\ wtask[s].at = "free"
                 /\ wtask' = [wtask EXCEPT ![s].at = "located"]
                 /\ wlast' = Did("got_geo")
          ELSE /\ wlast' = Did("geo_expected")
               /\ UNCHANGED wtask
    /\ UNCHANGED <<wst, wdata, planVars, tourVars, loopVars, blendVars>>

\* got_address line 197 and got_geo line 236: the answer is sent and the
\* handler calls finalize_route
FinalizeEnter(s) ==
    /\ wtask[s].at = "located"
    /\ FinalizeEntry(s)
    /\ UNCHANGED <<wst, wdata, planVars, tourVars, loopVars, blendVars>>

\* finalize_route, lines 266-340: the planner's call and what follows it up
\* to the next answer.  A budget that is not a number fits no tour.
FinalizePlan(s) ==
    /\ wtask[s].at = "announce"
    /\ \E reason \in {"error", "no_candidates", "time_budget_too_small", "ok_under_budget"} :
          /\ reason = "ok_under_budget" => wtask[s].snap.hours # NaN
          /\ wtask' = [wtask EXCEPT ![s] =
                          CASE reason = "time_budget_too_small" -> [@ EXCEPT !.at = "small_reply"]
                            [] reason = "ok_under_budget" -> [@ EXCEPT !.at = "guide"]
                            [] OTHER -> FreeTask]
          /\ wlast' = Did(reason)
    /\ UNCHANGED <<wst, wdata, planVars, tourVars, loopVars, blendVars>>

\* finalize_route, lines 294-303: the advice is sent, then
\* state.set_state(BuildRoute.location_method)
FinalizeTooSmall(s) ==
    /\ wtask[s].at = "small_reply"
    /\ wst' = "location_method"
    /\ wtask' = [wtask EXCEPT ![s] = FreeTask]
    /\ wlast' = [step |-> "finalize_too_small", arg |-> wtask[s].snap]
    /\ UNCHANGED <<wdata, planVars, tourVars, loopVars, blendVars>>

\* finalize_route, lines 342-350: the guide is sent, then the link
FinalizeGuide(s) ==
    /\ wtask[s].at = "guide"
    /\ wtask' = [wtask EXCEPT ![s].at = "link"]
    /\ wlast' = Did("finalize_guide")
    /\ UNCHANGED <<wst, wdata, planVars, tourVars, loopVars, blendVars>>

\* finalize_route, line 351: state.clear()
FinalizeClear(s) ==
    /\ wtask[s].at = "link"
    /\ wst' = "none" /\ wdata' = EmptyData
    /\ wtask' = [wtask EXCEPT ![s] = FreeTask]
    /\ wlast' = Did("finalize_clear")
    /\ UNCHANGED <<planVars, tourVars, loopVars, blendVars>>

NextWizard ==
    \/ CmdStart
    \/ CmdRestart
    \/ CbRestart
    \/ CbStartWizard
    \/ AskHours
    \/ AskLocationMethod
    \/ ChooseLocation
    \/ GotAddress
    \/ \E s \in Slots : AddressGeocoded(s)
    \/ GotLon
    \/ GotLat
    \/ GotGeo
    \/ \E s \in Slots : FinalizeEnter(s)
    \/ \E s \in Slots : FinalizePlan(s)
    \/ \E s \in Slots : FinalizeTooSmall(s)
    \/ \E s \in Slots : FinalizeGuide(s)
    \/ \E s \in Slots : FinalizeClear(s)

SpecWizard == InitWizard /\ [][NextWizard]_vars

(***************************************************************************)
(* Properties of the selector (checked under Spec)                         *)
(***************************************************************************)
Ok == result.reason = "ok_under_budget"

\* C1: whenever the call returns ok_under_budget, the estimate it returns
\* (estimated_minutes_fast) is at most time_budget_hours * 60; equality
\* counts as feasible.
C1_EstimateWithinBudget ==
    Ok => /\ result.estimated_minutes_fast >= 0
          /\ result.estimated_minutes_fast <= BudgetUnits

\* an ok_under_budget return whose estimate is exactly the budget
C1_Witness == Ok /\ result.estimated_minutes_fast = BudgetUnits

\* C2: whenever the call returns ok_under_budget, the total of the returned
\* per-leg breakdown (total_hours * 60: walking plus dwell) is at most
\* time_budget_hours * 60.
C2_BreakdownWithinBudget == Ok => result.total_hours <= BudgetUnits

\* the least element of a non-empty sequence of numbers
MinOf(seq) == CHOOSE v \in Range(seq) : \A w \in Range(seq) : v <= w

\* C3: when even n = 1 is over the budget the call returns
\* time_budget_too_small with an empty selection and estimated_minutes equal
\* to the smallest estimate computed during the search.
C3_TooSmallReportsMinimum ==
    result.reason = "time_budget_too_small" =>
        /\ result.selected_poi = <<>>
        /\ result.estimated_minutes = MinOf(estimates)

\* C4 as claimed: on ok_under_budget no size above the returned one, up to
\* the length of the promoted and cut list, has an estimate within budget.
C4_NoLargerFeasibleSize ==
    Ok => \A m \in Len(result.selected_poi) + 1 .. Len(rows) :
              SearchTime(durations_full, m, roundtrip, pacePct) > BudgetUnits

\* C4 amended: on ok_under_budget the returned n is the last size of the
\* first run of feasible sizes: every size 1 .. n has an estimate within
\* budget, and size n + 1, when the list has one, has not.
C4_LargestBeforeFirstInfeasible ==
    Ok => LET k == Len(result.selected_poi)
          IN  /\ k >= 1
              /\ \A m \in 1 .. k :
                    SearchTime(durations_full, m, roundtrip, pacePct) <= BudgetUnits
              /\ k < Len(rows) =>
                    SearchTime(durations_full, k + 1, roundtrip, pacePct) > BudgetUnits

\* an ok_under_budget return that stopped before the end of the list, at a
\* size whose predecessor is exactly on budget or below
C4_Witness == Ok /\ Len(result.selected_poi) < Len(rows)

\* a tour over the points 0 .. np - 1: starts at 0, each index exactly once
IsTour(order, np) ==
    /\ Len(order) = np
    /\ order[1] = 0
    /\ Range(order) = 0 .. np - 1

\* C6: the tours of nearest_neighbor and of two_opt over the points of every
\* tried size, and the order the call returns, start at index 0 and hold
\* each index of the point list exactly once, on a round trip too.
C6_ToursArePermutations ==
    /\ pc = "search" =>
          /\ IsTour(nearest_neighbor(SubMatrix(durations_full, n), 0), n + 1)
          /\ IsTour(SearchOrder(durations_full, n, roundtrip), n + 1)
    /\ best_n > 0 => IsTour(best_order_local, best_n + 1)
    /\ Ok => /\ IsTour(result.order, Len(result.selected_poi) + 1)
             /\ result.fixed_order = result.order

\* a returned round trip over three or more points: its closing leg ends at
\* the origin, and the order has the origin once
C6_Witness ==
    /\ Ok /\ roundtrip /\ Len(result.order) >= 3
    /\ result.legs[Len(result.legs)].to_idx = 0

\* the blended list is empty: each of the first fetch_k hits has no location
\* or lies beyond the 30 km cutoff
BlendEmpty ==
    \A i \in 1 .. Min2(Len(hits), prof.fetch_k) :
        \/ hits[i].location = <<>>
        \/ _haversine_km(USER_LAT, USER_LON, hits[i].location[1], hits[i].location[2]) > 30

\* C7: the call returns no_candidates exactly when the blended list is
\* empty, and then with an empty selection and no oracle request made.
C7_NoCandidatesIffEmptyBlend ==
    /\ result.reason = "no_candidates" =>
          /\ BlendEmpty
          /\ result.selected_poi = <<>>
          /\ table_calls = 0 /\ route_calls = 0
    /\ (pc # "call" /\ BlendEmpty) => (pc = "done" /\ result.reason = "no_candidates")

\* a no_candidates return where the cutoff has discarded a located hit
C7_Witness ==
    /\ result.reason = "no_candidates"
    /\ \E i \in 1 .. Len(hits) : hits[i].location # <<>>

\* C8: the returned roles are positional: start, then main for the first
\* min(5, n) selected candidates, additional for the rest.
C8_RolesPositional ==
    Ok => LET k == Len(result.selected_poi)
          IN  result.node_roles =
                  <<"start">> \o Repeat("main", Min2(5, k)) \o Repeat("additional", k - Min2(5, k))

\* the candidates of the ranked lists of the call
Candidates == Range(rows) \cup Range(main_semantic)

\* C9 as claimed: no two distinct candidates of the ranked lists share a key.
C9_KeysIdentifyOnePoint ==
    \A r1, r2 \in Candidates : r1.pid # r2.pid => key_of(r1) # key_of(r2)

\* C9 amended: candidates with distinct src_ids have distinct keys even when
\* title and coordinates coincide, a candidate with a src_id shares no key
\* with one without, and two candidates without src_id share a key exactly
\* when their stripped titles and their coordinates coincide.
C9_KeysByIdElseTitleAndPlace ==
    \A r1, r2 \in Candidates :
        r1.pid # r2.pid =>
            /\ (r1.src_id # None /\ r2.src_id # None /\ r1.src_id # r2.src_id)
                  => key_of(r1) # key_of(r2)
            /\ ((r1.src_id = None) # (r2.src_id = None)) => key_of(r1) # key_of(r2)
            /\ (r1.src_id = None /\ r2.src_id = None) =>
                  (key_of(r1) = key_of(r2)
                     <=> (Strip(r1.title) = Strip(r2.title) /\ r1.lat = r2.lat /\ r1.lon = r2.lon))

\* two ranked candidates with one title, one place and different src_ids
C9_Witness ==
    \E r1, r2 \in Range(rows) :
        /\ r1.src_id # None /\ r2.src_id # None /\ r1.src_id # r2.src_id
        /\ r1.title = r2.title /\ r1.lat = r2.lat /\ r1.lon = r2.lon

\* the tour uses a pair for which the table has no path
UsesMissing(order, df, rt) ==
    \/ \E i \in 0 .. Len(order) - 2 : df[At(order, i)][At(order, i + 1)] = None
    \/ rt /\ df[At(order, Len(order) - 1)][At(order, 0)] = None

\* C10: an oracle failure (no answer, a non-success status, a code other
\* than Ok) in the table request or a route request makes the call raise and
\* return nothing, and the call raises a RuntimeError for no other reason; a
\* null duration raises nothing and counts as infinite, so a size whose tour
\* uses it is infeasible.
C10_FailureRaisesNullIsInfinite ==
    /\ oracle_failed => (pc = "raised" /\ error = "RuntimeError" /\ result.reason = "none")
    /\ (pc = "raised" /\ error = "RuntimeError") => oracle_failed
    /\ \A m \in 1 .. Len(estimates) :
          UsesMissing(SearchOrder(durations_full, m, roundtrip), durations_full, roundtrip)
             => (estimates[m] = Inf /\ best_n < m)

\* a call that returned a plan although the tour of a larger size ran over a
\* pair without a path
C10_Witness ==
    /\ Ok /\ error = "none"
    /\ \E m \in 1 .. Len(estimates) :
          UsesMissing(SearchOrder(durations_full, m, roundtrip), durations_full, roundtrip)

\* rows of semantic_proximity_rerank, as the call gets them at line 120
Ranked ==
    semantic_proximity_rerank(hits, USER_LAT, USER_LON, prof.fetch_k, prof.fetch_k,
                              prof.alphaPct, HARD_DROP_KM)

\* the key lists made of the keys of some of the rows of a list
KeyLists(list) ==
    {LET In(r) == r \in S IN make_stable_keys(SelectSeq(list, In)) : S \in SUBSET Range(list)}

\* the rows whose key is in K are the first rows of the list
FrontIs(list, K) ==
    \A i, j \in 1 .. Len(list) :
        (i < j /\ key_of(list[j]) \in Range(K)) => key_of(list[i]) \in Range(K)

\* C13: promoting twice with one key list gives what promoting once gives,
\* and promoting keys whose rows are already the first rows of the list
\* gives the list itself; for the blended list of the call and every list
\* of keys of its rows and of the shortlist's.
C13_PromotionIdempotent ==
    pc = "table" =>
        \A K \in KeyLists(Ranked \o main_semantic) :
            LET once == _promote_required(Ranked, K)
            IN  /\ _promote_required(once, K) = once
                /\ FrontIs(Ranked, K) => once = Ranked
                /\ FrontIs(once, K)

\* the call's promotion moved rows: two or more rows were promoted over a
\* row that was ranked before one of them
C13_Witness ==
    /\ pc = "table" /\ prof.max_pois = None
    /\ rows # Ranked
    /\ Cardinality({i \in 1 .. Len(rows) :
                      key_of(rows[i]) \in Range(PromotedKeys(main_semantic, prof.pin_radius_km))}) >= 2

\* the position of a row in a list of distinct rows
Pos(list, x) == CHOOSE k \in 1 .. Len(list) : list[k] = x

\* out is the stable partition of list by membership of the key in K
StablePartition(list, out, K) ==
    /\ Len(out) = Len(list)
    /\ Range(out) = Range(list)
    /\ \A i, j \in 1 .. Len(out) :
          i < j =>
             /\ key_of(out[j]) \in K => key_of(out[i]) \in K
             /\ ((key_of(out[i]) \in K) = (key_of(out[j]) \in K))
                   => Pos(list, out[i]) < Pos(list, out[j])

\* C18: _promote_required returns a permutation of its input of the same
\* length in which every row with a required key precedes every row
\* without, each group in its input order; for the blended list and every
\* key list, and for the promotion the call makes (lines 134-145).
C18_PromotionIsStablePartition ==
    pc = "table" =>
        /\ \A K \in KeyLists(Ranked \o main_semantic) :
              StablePartition(Ranked, _promote_required(Ranked, K), Range(K))
        /\ prof.max_pois = None =>
              StablePartition(Ranked, rows,
                              Range(PromotedKeys(main_semantic, prof.pin_radius_km)))

\* the call promoted two rows that were not next to each other in the
\* blended list, and left a row behind them
C18_Witness ==
    /\ pc = "table" /\ prof.max_pois = None /\ Len(rows) = 3
    /\ LET K == Range(PromotedKeys(main_semantic, prof.pin_radius_km))
       IN  /\ key_of(Ranked[1]) \in K /\ key_of(Ranked[2]) \notin K /\ key_of(Ranked[3]) \in K
           /\ rows = <<Ranked[1], Ranked[3], Ranked[2]>>

\* C15: on ok_under_budget main_semantic_not_in_route holds, in shortlist
\* order and once each, the shortlist items whose key is the key of no
\* selected candidate: each shortlist item is either selected (by key) or
\* listed, never both, never neither.
C15_NotInRouteIsShortlistMinusSelected ==
    Ok => LET sel == {key_of(r) : r \in Range(result.selected_poi)}
              short == result.main_semantic
              miss == result.main_semantic_not_in_route
          IN  /\ short = main_semantic
              /\ \A ms \in Range(short) : (key_of(ms) \in sel) # (ms \in Range(miss))
              /\ Range(miss) \subseteq Range(short)
              /\ Cardinality(Range(miss)) = Len(miss)
              /\ \A i, j \in 1 .. Len(miss) :
                    i < j => Pos(short, miss[i]) < Pos(short, miss[j])

\* a plan that holds one shortlist item and leaves two out
C15_Witness ==
    /\ Ok
    /\ Len(result.main_semantic_not_in_route) >= 2
    /\ \E ms \in Range(result.main_semantic) :
          key_of(ms) \in {key_of(r) : r \in Range(result.selected_poi)}

\* C16: the search tries the sizes 1, 2, ... in this order, one estimate
\* each, stops at the first size whose estimate is over the budget and
\* tries none after it; best_n is then that size minus one, or the length of
\* the promoted and cut list when every size fits.
C16_SearchStopsAtFirstInfeasible ==
    /\ pc = "search" => n = Len(estimates) + 1
    /\ \A m \in 1 .. Len(estimates) :
          /\ estimates[m] = SearchTime(durations_full, m, roundtrip, pacePct)
          /\ m < Len(estimates) => estimates[m] <= BudgetUnits
    /\ (pc \in {"after", "route", "done", "raised"} /\ Len(estimates) > 0) =>
          LET k == Len(estimates)
          IN  IF estimates[k] > BudgetUnits
              THEN best_n = k - 1
              ELSE k = Len(rows) /\ best_n = Len(rows)

\* a search that stopped at size 2 of 3 and kept size 1
C16_Witness ==
    /\ pc = "after" /\ Len(rows) = 3 /\ Len(estimates) = 2
    /\ estimates[2] > BudgetUnits /\ best_n = 1

Promoted == PromoteAndCut(Ranked, main_semantic, prof.pin_radius_km, None)

\* the keys of the shortlist items within pin_radius_km of the origin
NearKeys ==
    {key_of(ms) : ms \in {x \in Range(main_semantic) :
                            _haversine_km(USER_LAT, USER_LON, x.lat, x.lon) <= prof.pin_radius_km}}

\* C19 as claimed: after the promotion step every shortlist item within
\* pin_radius_km of the origin is in the candidate list, ahead of every
\* candidate that was not promoted.
C19_NearShortlistAlwaysPromoted ==
    pc = "table" =>
        \A k \in NearKeys :
            \E i \in 1 .. Len(Promoted) :
                /\ key_of(Promoted[i]) = k
                /\ \A j \in 1 .. Len(Promoted) : key_of(Promoted[j]) \notin NearKeys => i < j

\* the key of a hit that has a location
HitKey(h) ==
    _make_key([src_id |-> h.src_id, title |-> h.title,
               location |-> [lat |-> h.location[1], lon |-> h.location[2]]])

\* the keys of the hits the blend keeps: among the first fetch_k, with a
\* location, within the 30 km cutoff
BlendedKeys ==
    {HitKey(hits[i]) : i \in {x \in 1 .. Min2(Len(hits), prof.fetch_k) :
                                /\ hits[x].location # <<>>
                                /\ _haversine_km(USER_LAT, USER_LON, hits[x].location[1],
                                                 hits[x].location[2]) <= 30}}

\* C19 amended: after the promotion step every candidate whose key is the
\* key of a shortlist item within pin_radius_km of the origin is ahead of
\* every candidate whose key is not, whatever its blended rank; such a
\* shortlist item is in the candidate list exactly when a hit with its key
\* is among the first fetch_k hits and within the 30 km cutoff.
C19_PromotedCandidatesLead ==
    pc = "table" =>
        /\ \A i, j \in 1 .. Len(Promoted) :
              (key_of(Promoted[i]) \in NearKeys /\ key_of(Promoted[j]) \notin NearKeys) => i < j
        /\ \A k \in NearKeys :
              (\E i \in 1 .. Len(Promoted) : key_of(Promoted[i]) = k) <=> k \in BlendedKeys
        /\ prof.max_pois = None => rows = Promoted

\* a promoted candidate stands ahead of a candidate with a better blended
\* score
C19_Witness ==
    /\ pc = "table"
    /\ \E i, j \in 1 .. Len(rows) :
          /\ i < j /\ rows = Promoted
          /\ key_of(rows[i]) \in NearKeys /\ key_of(rows[j]) \notin NearKeys
          /\ rows[i].final_score < rows[j].final_score

RECURSIVE DwellOfFirst(_, _, _)
\* the dwell minutes of the first k nodes of a tour
DwellOfFirst(order, dwell, k) ==
    IF k = 0 THEN 0
    ELSE Max2(0, At(dwell, order[k])) + DwellOfFirst(order, dwell, k - 1)

\* C20: the estimate of every tried size is the scaled walking time of the
\* tour plus the dwell of every node of the tour on a round trip, and of
\* every node but the last on a one-way tour.
C20_EstimateCountsRoundTripLastDwell ==
    \A m \in 1 .. Len(estimates) :
        LET order == SearchOrder(durations_full, m, roundtrip)
            M == SubMatrix(durations_full, m)
            counted == IF roundtrip THEN Len(order) ELSE Len(order) - 1
        IN  estimates[m] =
                Plus(Scale(path_cost(order, M, roundtrip), pacePct),
                     DwellOfFirst(order, SearchDwell(m), counted) * TimeUnit)

\* the place of a point in the retrieved list
HitPos(pid) == CHOOSE i \in 1 .. Len(hits) : hits[i].pid = pid

\* the calls of semantic_proximity_rerank looked at: every top_k up to one
\* more than the hits, the fetch_k of the profile, geography only, blends and
\* meaning only, and no cut, a near cut and the planner's cut
RerankTopKs == 0 .. MaxHits + 1
RerankDrops == {None, 5, HARD_DROP_KM}

\* what semantic_proximity_rerank returns in this state for the parameters
RerankOut(top_k, alphaPct, drop) ==
    semantic_proximity_rerank(hits, USER_LAT, USER_LON, top_k, prof.fetch_k, alphaPct, drop)

\* out is sorted by final_score, best first, equal scores in retrieval order
SortedStable(out) ==
    \A i, j \in 1 .. Len(out) :
        i < j => \/ out[i].final_score > out[j].final_score
                 \/ /\ out[i].final_score = out[j].final_score
                    /\ HitPos(out[i].pid) < HitPos(out[j].pid)

\* C25: semantic_proximity_rerank returns at most top_k rows, sorted by
\* final_score in descending order with equal scores in retrieval order; a
\* hit without coordinates or farther than hard_drop_km from the origin is
\* not among them.
C25_RerankSortedCutAndFiltered ==
    pc \in {"table", "done"} =>
        \A top_k \in RerankTopKs : \A alphaPct \in BlendAlphas \cup {prof.alphaPct} :
          \A drop \in RerankDrops :
            LET out == RerankOut(top_k, alphaPct, drop)
            IN  /\ Len(out) <= top_k
                /\ SortedStable(out)
                /\ \A i \in 1 .. Len(out) :
                      LET h == hits[HitPos(out[i].pid)]
                      IN  /\ HasLocation(h)
                          /\ drop # None =>
                                _haversine_km(USER_LAT, USER_LON, h.location[1],
                                              h.location[2]) <= drop

\* a call that returned two rows of equal score, with a hit left out for its
\* distance or its missing coordinates, and that top_k = 1 cuts
C25_Witness ==
    /\ pc = "table" /\ Len(hits) = 3 /\ prof.fetch_k >= 3
    /\ \E alphaPct \in BlendAlphas :
          LET out == RerankOut(3, alphaPct, HARD_DROP_KM)
          IN  /\ Len(out) = 2
              /\ out[1].final_score = out[2].final_score
              /\ Len(RerankOut(1, alphaPct, HARD_DROP_KM)) = 1

\* M is a square matrix over the indices 0 .. size
SquareOver(M, size) == DOMAIN M = 0 .. size /\ \A i \in DOMAIN M : DOMAIN M[i] = 0 .. size

\* C26: in a step of the search for the size n, the matrix is the
\* (n+1) x (n+1) corner of the table with the origin at index 0, and the tour
\* and the dwell list have n+1 entries; the best tour has best_n + 1 entries;
\* the roles and the dwell list handed to the route builder, and the roles in
\* the result, have best_n + 1 entries, as many as the final point list.
C26_SizesAgree ==
    /\ pc = "search" =>
          /\ n >= 1 /\ n <= Len(rows)
          /\ SquareOver(durations_full, Len(rows))
          /\ SquareOver(SubMatrix(durations_full, n), n)
          /\ IsTour(SearchOrder(durations_full, n, roundtrip), n + 1)
          /\ Len(SearchDwell(n)) = n + 1
    /\ best_n > 0 => IsTour(best_order_local, best_n + 1)
    /\ pc = "route" \/ (pc = "done" /\ Ok) =>
          /\ best_n > 0
          /\ Len(TablePoints(Prefix(rows, best_n))) = best_n + 1
          /\ Len(node_roles) = best_n + 1
          /\ Len(dwell_minutes_per_node) = best_n + 1
    /\ pc = "done" /\ Ok =>
          /\ Len(result.node_roles) = Len(result.selected_poi) + 1
          /\ Len(result.order) = Len(result.node_roles)

\* a route over two of three candidates
C26_Witness == pc = "done" /\ Ok /\ best_n = 2 /\ Len(rows) = 3 /\ Len(result.node_roles) = 3

\* the number of legs of a walk over the order
LegCount(order, rt) == IF rt THEN Len(order) ELSE Len(order) - 1

\* C27: build_walking_route with a fixed order makes one route call per leg,
\* in tour order: leg k goes from the k-th point of the order to the next
\* one, the last leg of a round trip to the origin; so the legs chain. The
\* calls number len(order) - 1 one-way and len(order) on a round trip, the
\* order is returned as given, and cum_min_total never decreases and ends at
\* the total of the walk.
C27_OneRouteCallPerLegInTourOrder ==
    pc = "route" \/ (pc = "done" /\ Ok) =>
        /\ route_calls = Len(legs)
        /\ Len(legs) <= LegCount(best_order_local, roundtrip)
        /\ \A k \in 1 .. Len(legs) :
              /\ legs[k].from_idx = best_order_local[k]
              /\ legs[k].to_idx = IF k < Len(best_order_local)
                                  THEN best_order_local[k + 1] ELSE best_order_local[1]
              /\ k > 1 => /\ legs[k].from_idx = legs[k - 1].to_idx
                          /\ legs[k].cum_min_total >= legs[k - 1].cum_min_total
        /\ pc = "done" =>
              /\ Len(legs) = LegCount(best_order_local, roundtrip)
              /\ result.order = best_order_local
              /\ result.legs = legs
              /\ roundtrip => legs[Len(legs)].to_idx = 0
              /\ legs[Len(legs)].cum_min_total = result.total_hours

\* a round trip over two candidates: three legs, the last one home
C27_Witness ==
    /\ pc = "done" /\ Ok /\ roundtrip
    /\ Len(legs) = 3 /\ route_calls = 3
    /\ legs[3].to_idx = 0
    /\ legs[1].cum_min_total < legs[3].cum_min_total

(***************************************************************************)
(* Properties of the tour engine (checked under SpecTour)                  *)
(***************************************************************************)
\* every entry is a number >= 0
NonNegative(M) == \A i \in DOMAIN M : \A j \in DOMAIN M : M[i][j] >= 0

\* C5: for every matrix of non-negative entries, symmetric or not, and both
\* values of roundtrip, the tour two_opt returns costs no more than the
\* nearest_neighbor tour it started from.
C5_TwoOptNeverCostlier ==
    (tpc \in {"refined", "estimated"} /\ NonNegative(tM)) =>
        path_cost(tOut, tM, tRound) <= path_cost(tBase, tM, tRound)

RECURSIVE LegSeconds(_, _, _)
\* the matrix seconds of the first k legs of a tour, added up
LegSeconds(order, M, k) ==
    IF k = 0 THEN 0
    ELSE Plus(M[order[k]][order[k + 1]], LegSeconds(order, M, k - 1))

\* C21: the estimate of a tour of fewer than two nodes is 0; otherwise its
\* walking part (the estimate less the dwell of all nodes but the last) is
\* the matrix seconds of the consecutive legs, plus those of the leg from
\* the last node to the first exactly on a round trip, times pace_scale / 60;
\* the tour and the matrix are what they were.  Stated for tours whose legs
\* all have a duration; legs without one are the matter of C22.
C21_WalkingPartIsScaledLegSum ==
    tpc = "estimated" =>
        /\ tOut = two_opt(tBase, tM, tRound, tMaxIter)
        /\ IF Len(tOut) < 2 THEN tEst.minutes = 0
           ELSE ~UsesMissing(tOut, tM, tRound) =>
                  LET legs_sec == LegSeconds(tOut, tM, Len(tOut) - 1)
                      walk_sec == IF tRound
                                  THEN Plus(legs_sec, tM[tOut[Len(tOut)]][tOut[1]])
                                  ELSE legs_sec
                  IN  tEst.minutes =
                         Plus(Scale(walk_sec, tEst.pace),
                              DwellOfFirst(tOut, tEst.dwell, Len(tOut) - 1) * TimeUnit)

\* an estimated round trip over three or more points whose closing leg
\* costs something else than the same leg walked the other way
C21_Witness ==
    /\ tpc = "estimated" /\ tRound /\ Len(tOut) >= 3
    /\ ~UsesMissing(tOut, tM, tRound)
    /\ tM[tOut[Len(tOut)]][tOut[1]] # tM[tOut[1]][tOut[Len(tOut)]]
    /\ tEst.pace = 167

\* C22: no consumer of the matrix takes a missing entry as a free leg: the
\* path_cost and the estimate of a tour that uses a pair without a duration
\* are infinite, and two_opt does not turn a tour that uses no such pair
\* into one that does.
C22_MissingEntryIsInfinite ==
    /\ (tpc \in {"built", "refined", "estimated"} /\ UsesMissing(tBase, tM, tRound)) =>
          path_cost(tBase, tM, tRound) = Inf
    /\ (tpc \in {"refined", "estimated"} /\ ~UsesMissing(tBase, tM, tRound)) =>
          ~UsesMissing(tOut, tM, tRound)
    /\ (tpc = "estimated" /\ UsesMissing(tOut, tM, tRound)) => tEst.minutes = Inf

\* the cost of the step a -> b for the greedy choice: a missing entry is
\* +infinity
StepCost(M, a, b) == IF M[a][b] = None THEN Inf ELSE M[a][b]

\* the indices the tour has not visited after its first k entries
Unvisited(tour, M, k) == DOMAIN M \ {tour[x] : x \in 1 .. k}

\* C23: the nearest_neighbor tour starts at the start index and holds every
\* index once; each entry after the first is, among the indices not yet
\* visited, one of minimal cost from the entry before it (a missing cost
\* counting as +infinity), and the lowest of those.
C23_NearestNeighborIsGreedy ==
    tpc \in {"built", "refined", "estimated"} =>
        /\ IsTour(tBase, MatLen(tM))
        /\ \A k \in 1 .. Len(tBase) - 1 :
              \A j \in Unvisited(tBase, tM, k) :
                  /\ StepCost(tM, tBase[k], tBase[k + 1]) <= StepCost(tM, tBase[k], j)
                  /\ StepCost(tM, tBase[k], j) = StepCost(tM, tBase[k], tBase[k + 1])
                        => tBase[k + 1] <= j

\* a tour built over a tie (the lower index was taken) and around a pair
\* without a duration
C23_Witness ==
    /\ tpc = "built" /\ Len(tBase) = 4
    /\ \E j \in Unvisited(tBase, tM, 1) :
          j > tBase[2] /\ StepCost(tM, 0, j) = StepCost(tM, 0, tBase[2])
    /\ \E j \in Unvisited(tBase, tM, 2) : tM[tBase[2]][j] = None

\* the pairs (i, j) one pass of two_opt scans on a tour
ScannedPairs(tour, rt) ==
    {p \in (1 .. TwoOptLastI(Len(tour), rt)) \X (2 .. Len(tour) - 1) : p[2] > p[1]}

\* the run of two_opt the refinement made: its tour, the number of passes and
\* whether the last pass reversed anything
RefineRun == TwoOptLoop(tBase, tM, tRound, TRUE, 0, tMaxIter)

AllTours(M) ==
    {t \in [1 .. MatLen(M) -> DOMAIN M] : \A i \in DOMAIN M : \E k \in DOMAIN t : t[k] = i}

WaitingOnOracle(r) == lpc[r] \in {"oracle", "backoff"}

\* the request's coroutine is suspended at an await and can be resumed
Suspended(r) == lpc[r] \in {"new", "announce", "guide"}

\* C11: while one request waits on an oracle request, the back-off sleeps
\* included, every other request that is suspended at an await can be
\* resumed by the loop and take its next step.
C11_OthersProgressDuringOracleWait ==
    \A a, b \in Requests :
        (a # b /\ WaitingOnOracle(a) /\ Suspended(b)) => ENABLED Resume(b)

\* C12: no map file handed, or about to be handed, to the sender of a
\* request holds the route of another request: a request that planned a
\* route finds in its file what it wrote itself, and the link it sends shows
\* its own map.
C12_OutputsNeverOverwritten ==
    \A r \in Requests :
        /\ (outcome[r] = "ok_under_budget") => files[outfile[r]] = r
        /\ handed[r] \in {0, r}

\* the answers that made their attempt fail
Failures(log) == {k \in 1 .. Len(log) : AttemptRaises(log[k])}

\* the pauses after the first m failed attempts, in tenths of a second
Pauses(m) == [k \in 1 .. m |-> RETRY_BACKOFF * 2 ^ (k - 1)]

\* C28: an oracle request gets at most RETRY_COUNT attempts; no attempt
\* follows a successful one; after every failed attempt but the
\* RETRY_COUNT-th the adapter pauses RETRY_BACKOFF * 2^(k-1), and nowhere
\* else; the request raises exactly when its RETRY_COUNT-th attempt has
\* failed, and the planning call then ends with the error: it makes no
\* further attempt and no further request.
C28_RetriesOnlyInsideOneRequest ==
    \A r \in Requests :
        /\ attempt[r] <= RETRY_COUNT
        /\ Len(seen[r]) <= RETRY_COUNT
        /\ \A k \in 1 .. Len(seen[r]) - 1 : AttemptRaises(seen[r][k])
        /\ waits[r] = Pauses(Min2(Cardinality(Failures(seen[r])), RETRY_COUNT - 1))
        /\ lpc[r] = "backoff" =>
              Len(seen[r]) = attempt[r] /\ Failures(seen[r]) = 1 .. attempt[r]
        /\ lpc[r] = "oracle" /\ attempt[r] > 1 =>
              Len(seen[r]) = attempt[r] - 1 /\ Failures(seen[r]) = 1 .. attempt[r] - 1
        /\ outcome[r] = "error" <=> Failures(seen[r]) = 1 .. RETRY_COUNT
        /\ outcome[r] \in {"ok_under_budget", "time_budget_too_small"} =>
              /\ Len(seen[r]) = attempt[r]
              /\ ~AttemptRaises(seen[r][Len(seen[r])])
        /\ outcome[r] = "error" =>
              /\ lpc[r] = "done" /\ running # r
              /\ ~ENABLED (OracleAnswer(r) \/ BackoffEnd(r) \/ PlanEnter(r))

\* a request that failed for good after two pauses, while the other request's
\* last oracle call succeeded at its third attempt
C28_Witness ==
    \E a, b \in Requests :
        /\ outcome[a] = "error" /\ waits[a] = <<6, 12>> /\ lphase[a] = "route"
        /\ outcome[b] = "ok_under_budget" /\ Len(seen[b]) = 3 /\ waits[b] = <<6, 12>>

(***************************************************************************)
(* Properties of the blend (checked under SpecBlend)                       *)
(***************************************************************************)
\* C14: for alpha in [0, 1] the row's semantic_score01 is (cos + 1) / 2
\* clamped to [0, 1], its geo_score lies in [0, 1], and its final_score is
\* alpha * semantic01 + (1 - alpha) * geo_score and lies in [0, 1].  Scores
\* are in units of 1/200, alpha in hundredths, final_score in units of
\* 1/20000.
C14_BlendIsConvexInUnitRange ==
    bpc = "blended" =>
        /\ bRow.semantic_score01 =
              (IF bHit.score <= -100 THEN 0 ELSE IF bHit.score >= 100 THEN 200
               ELSE bHit.score + 100)
        /\ bRow.geo_score >= 0 /\ bRow.geo_score <= 200
        /\ bRow.final_score =
              bAlpha * bRow.semantic_score01 + (100 - bAlpha) * bRow.geo_score
        /\ bRow.final_score >= 0 /\ bRow.final_score <= 20000

\* a hit whose cosine is above 1, blended with alpha = 1: the clamp makes
\* the final score exactly 1
C14_Witness ==
    /\ bpc = "blended" /\ bHit.score > 100 /\ bAlpha = 100
    /\ bRow.final_score = 20000

(***************************************************************************)
(* Properties of the chat wizard (checked under SpecWizard)                *)
(***************************************************************************)

\* C30: finalize_route is entered only with the interests and an hours value
\* with 0 < hours <= 24 in the session data; after /start, /restart, /new
\* and the restart button the data is empty; a time_budget_too_small return
\* leaves the chat in the location-choice state with the interests and the
\* hours finalize_route was entered with.
C30_FinalizeOnlyWithValidatedSession ==
    /\ wlast.step = "finalize_route" =>
          /\ {"interests", "hours"} \subseteq wlast.arg.keys
          /\ wlast.arg.hours # NaN /\ wlast.arg.hours > 0 /\ wlast.arg.hours <= 240
    /\ wlast.step \in {"cmd_start", "cmd_restart", "cb_restart"} => wdata = EmptyData
    /\ wlast.step = "finalize_too_small" =>
          /\ wst = "location_method"
          /\ {"interests", "hours"} \subseteq wdata.keys
          /\ wdata.interests = wlast.arg.interests
          /\ wdata.hours = wlast.arg.hours

====
